---- MODULE Spec2Model ----
(***************************************************************************)
(* Model of siem_desktop_app/app.py: the start-up pipeline (CSV discovery, *)
(* column normalisation, required-column validation, risk                  *)
(* classification), the dashboard's event handlers (severity filter, row   *)
(* selection, chart redraw) and the two pure functions compute_risk_level  *)
(* and ml_explanation.                                                     *)
(*                                                                         *)
(* Scores are fixed-point numbers in thousandths: 0.70 is 700.             *)
(* Row labels and positions are 0-based as in pandas; TLA+ sequences are   *)
(* 1-based, so position k of a frame is element k + 1 of its sequence.     *)
(***************************************************************************)
EXTENDS Integers, Sequences, FiniteSets, TLC

VARIABLES
    meipass,      \* hasattr(sys, "_MEIPASS")
    files,        \* the <<directory, filename>> pairs for which os.path.exists holds
    csv_data,     \* the text table stored in the CSV file(s) on disk
    pc,           \* position of the module-level script
    csv_path,     \* the path pd.read_csv was given, <<>> before the load
    df,           \* the loaded DataFrame: [cols, rows]
    found_risk_col,
    dialog,       \* the messagebox.showerror shown, if any
    error,        \* the unhandled exception that ended the process, if any
    exit_status,  \* process exit status, -1 while running
    window,       \* TRUE once tk.Tk() and the widgets exist
    severity_var, \* the StringVar behind the radio buttons
    df_view,      \* df.sample(frac=1).reset_index(drop=True): a sequence of rows
    tree,         \* the Treeview's rows, in display order
    selection,    \* tree.selection(): selected row ids, in display order
    invest_text,  \* contents of the investigation Text widget
    chart1,       \* bars of the severity distribution chart
    chart2,       \* bars of the top targeted servers chart
    fn_arg,       \* argument of a direct call of a pure function
    fn_level,     \* result of compute_risk_level(fn_arg), "" before the call
    fn_expl       \* result of ml_explanation(fn_arg), <<>> before the call

vars == <<meipass, files, csv_data, pc, csv_path, df, found_risk_col, dialog,
          error, exit_status, window, severity_var, df_view, tree, selection,
          invest_text, chart1, chart2, fn_arg, fn_level, fn_expl>>

env_vars == <<meipass, files, csv_data>>
ui_vars == <<window, severity_var, df_view, tree, selection, invest_text,
             chart1, chart2>>
fn_vars == <<fn_arg, fn_level, fn_expl>>

-----------------------------------------------------------------------------
(* Bounds of the model *)

\* largest number of data rows in a CSV file
MaxRows == 2
\* scores passed to the pure functions range over -MaxNegScore .. MaxScore
MaxScore == 1000
MaxNegScore == 50

-----------------------------------------------------------------------------
(* Values *)

\* Every Python value of the model is a record [k, v, s]: k is its kind, v the
\* number it holds (thousandths), s the text it holds.
Float(v) == [k |-> "float", v |-> v, s |-> ""]
\* float("nan"): what pandas stores for an empty cell
NaN == [k |-> "nan", v |-> 0, s |-> ""]
\* a str holding a decimal literal, such as "0.72" (or str(n) of an int n)
NumStr(v) == [k |-> "numstr", v |-> v, s |-> ""]
\* a str that is no number
Str(s) == [k |-> "str", v |-> 0, s |-> s]
\* Python None
PyNone == [k |-> "none", v |-> 0, s |-> ""]

\* float(x): [ok, val]; ok = FALSE stands for ValueError / TypeError
ToFloat(x) ==
    CASE x.k \in {"float", "nan"} -> [ok |-> TRUE, val |-> x]
      [] x.k = "numstr" -> [ok |-> TRUE, val |-> Float(x.v)]
      [] OTHER -> [ok |-> FALSE, val |-> NaN]

\* x >= t on floats: every comparison with NaN is False
GE(x, t) == x.k = "float" /\ x.v >= t

\* pandas isna(x)
IsNull(x) == x.k \in {"nan", "none"}

-----------------------------------------------------------------------------
(* RISK LEVEL *)

HighThreshold == 700
MediumThreshold == 450

\* faulty variant: the HIGH bound taken as exclusive (score > 0.70)
compute_risk_level_gt(score) ==
    LET f == ToFloat(score) IN
    IF ~f.ok THEN "LOW"
    ELSE IF f.val.k = "float" /\ f.val.v > HighThreshold THEN "HIGH"
    ELSE IF GE(f.val, MediumThreshold) THEN "MEDIUM"
    ELSE "LOW"

compute_risk_level(score) ==
    LET f == ToFloat(score) IN
    IF ~f.ok THEN "LOW"
    ELSE IF GE(f.val, HighThreshold) THEN "HIGH"
    ELSE IF GE(f.val, MediumThreshold) THEN "MEDIUM"
    ELSE "LOW"

-----------------------------------------------------------------------------
(* MITRE MAP *)

MITRE_MAP ==
    [code \in {"PRIV_ESC", "BRUTE_FORCE", "LATERAL_MOVE", "DATA_EXFIL",
               "MALWARE_EXEC", "PORT_SCAN", "AUTH_FAILURE"} |->
        CASE code = "PRIV_ESC" -> <<"Privilege Escalation", "T1068">>
          [] code = "BRUTE_FORCE" -> <<"Credential Access", "T1110">>
          [] code = "LATERAL_MOVE" -> <<"Lateral Movement", "T1021">>
          [] code = "DATA_EXFIL" -> <<"Exfiltration", "T1041">>
          [] code = "MALWARE_EXEC" -> <<"Execution", "T1059">>
          [] code = "PORT_SCAN" -> <<"Discovery", "T1046">>
          [] code = "AUTH_FAILURE" -> <<"Credential Access", "T1110">>]

\* MITRE_MAP.get(alert_type, ("Unknown", "N/A"))
MitreGet(alert_type) ==
    IF alert_type.k = "str" /\ alert_type.s \in DOMAIN MITRE_MAP
    THEN MITRE_MAP[alert_type.s]
    ELSE <<"Unknown", "N/A">>

-----------------------------------------------------------------------------
(* ML EXPLANATION *)

StrongThreshold == 750

StrongExpl == <<"Strong privilege escalation signal",
                "Off-hours administrative activity",
                "Multiple failed authentication attempts">>
MiddleExpl == <<"Suspicious behavior detected", "Moderate anomaly score">>
LowExpl == <<"Low-confidence anomaly", "Likely benign activity">>

\* ml_explanation(score) for a float argument
ml_explanation(score) ==
    IF GE(score, StrongThreshold) THEN StrongExpl
    ELSE IF GE(score, MediumThreshold) THEN MiddleExpl
    ELSE LowExpl

\* score >= 0.75 raises TypeError when score is a str or None
CanCompare(score) == score.k \in {"float", "nan"}

-----------------------------------------------------------------------------
(* CSV LOADER *)

PrimaryFile == "siem_alerts.csv"
SecondaryFile == "siem_features.csv"
Filenames == {PrimaryFile, SecondaryFile}
\* sys._MEIPASS, the directory of the executable or script, os.getcwd()
Dirs == {"mei", "base", "cwd"}

\* the result of get_csv_path when it raises FileNotFoundError
NotFound == <<>>

\* faulty variant: the working directory searched before the executable's
get_csv_path_cwd_first(filename) ==
    IF meipass /\ <<"mei", filename>> \in files THEN <<"mei", filename>>
    ELSE IF <<"cwd", filename>> \in files THEN <<"cwd", filename>>
    ELSE IF <<"base", filename>> \in files THEN <<"base", filename>>
    ELSE NotFound

get_csv_path(filename) ==
    IF meipass /\ <<"mei", filename>> \in files THEN <<"mei", filename>>
    ELSE IF <<"base", filename>> \in files THEN <<"base", filename>>
    ELSE IF <<"cwd", filename>> \in files THEN <<"cwd", filename>>
    ELSE NotFound

\* Cells of the text file: a decimal literal, an empty field, any other text.
RawNum(v) == [k |-> "num", v |-> v, s |-> ""]
RawEmpty == [k |-> "empty", v |-> 0, s |-> ""]
RawText(s) == [k |-> "text", v |-> 0, s |-> s]

\* pd.read_csv infers each column's type: a column of numbers and empty fields
\* becomes float64 (empty -> NaN); a column with any other text becomes object,
\* its fields kept as str (empty -> NaN).
ReadColumn(raw, c) ==
    LET numeric == \A i \in 1..Len(raw.rows) : raw.rows[i][c].k \in {"num", "empty"}
    IN [i \in 1..Len(raw.rows) |->
          LET x == raw.rows[i][c] IN
          CASE x.k = "empty" -> NaN
            [] x.k = "num" -> IF numeric THEN Float(x.v) ELSE NumStr(x.v)
            [] OTHER -> Str(x.s)]

read_csv(raw) ==
    [cols |-> raw.cols,
     rows |-> [i \in 1..Len(raw.rows) |->
                 [c \in raw.cols |-> ReadColumn(raw, c)[i]]]]

NoFrame == [cols |-> {}, rows |-> <<>>]
NoDialog == [title |-> "", text |-> "", names |-> <<>>]

-----------------------------------------------------------------------------
(* COLUMN NORMALIZATION *)

RISK_ALIASES == <<"risk_score", "risk", "score", "anomaly_score", "severity_score">>
required_cols == <<"alert_type", "user", "destination_host", "risk_score">>

RECURSIVE FirstMatch(_, _)
\* the for/break loop: the first alias from position i on that is a column
FirstMatch(i, cols) ==
    IF i > Len(RISK_ALIASES) THEN ""
    ELSE IF RISK_ALIASES[i] \in cols THEN RISK_ALIASES[i]
    ELSE FirstMatch(i + 1, cols)

RECURSIVE LastMatch(_, _)
\* faulty variant of the alias loop: the last alias present wins
LastMatch(i, cols) ==
    IF i < 1 THEN ""
    ELSE IF RISK_ALIASES[i] \in cols THEN RISK_ALIASES[i]
    ELSE LastMatch(i - 1, cols)

FindRiskColLast(cols) == LastMatch(Len(RISK_ALIASES), cols)

FindRiskCol(cols) == FirstMatch(1, cols)

\* df.rename(columns={old: new}, inplace=True)
Rename(frame, old, new) ==
    LET newcols == (frame.cols \ {old}) \cup {new}
    IN [cols |-> newcols,
        rows |-> [i \in 1..Len(frame.rows) |->
                    [c \in newcols |->
                        IF c = new THEN frame.rows[i][old] ELSE frame.rows[i][c]]]]

\* [c for c in required_cols if c not in df.columns]
\* faulty variant: only risk_score is looked for
MissingOnlyRisk(cols) ==
    IF "risk_score" \notin cols THEN <<"risk_score">> ELSE <<>>

\* faulty variant: the dialog lists required_cols whole
MissingAllRequired(cols) ==
    IF \E i \in 1..Len(required_cols) : required_cols[i] \notin cols
    THEN required_cols ELSE <<>>

Missing(cols) ==
    LET Absent(c) == c \notin cols IN SelectSeq(required_cols, Absent)

\* df[col] = vals, one value per row
WithColumn(frame, col, vals) ==
    [cols |-> frame.cols \cup {col},
     rows |-> [i \in 1..Len(frame.rows) |->
                 [c \in frame.cols \cup {col} |->
                     IF c = col THEN vals[i] ELSE frame.rows[i][c]]]]

\* .astype(float) raises ValueError when a field is no number
AstypeFloatFails(frame) ==
    \E i \in 1..Len(frame.rows) : ~ToFloat(frame.rows[i]["risk_score"]).ok

AstypeFloat(x) == ToFloat(x).val

-----------------------------------------------------------------------------
(* Input files the model is run on *)

AliasSet == {RISK_ALIASES[i] : i \in 1..Len(RISK_ALIASES)}
RequiredSet == {"alert_type", "user", "destination_host"}
ColumnUniverse == AliasSet \cup RequiredSet \cup {"timestamp"}

AliasIndex(c) == CHOOSE i \in 1..Len(RISK_ALIASES) : RISK_ALIASES[i] = c

\* One data row of a file is written from a seed.  The alias column of
\* priority i holds the seed's score plus (i - 1) thousandths, so that two
\* alias columns of one file never carry the same numbers.
Cell(c, seed) ==
    IF c \in AliasSet
    THEN IF seed.score.k = "num"
         THEN RawNum(seed.score.v + AliasIndex(c) - 1)
         ELSE seed.score
    ELSE IF c \in RequiredSet THEN seed[c]
    ELSE RawText("2024-01-01")

Table(cols, seeds) ==
    [cols |-> cols,
     rows |-> [i \in 1..Len(seeds) |-> [c \in cols |-> Cell(c, seeds[i])]]]

Baseline ==
    [score |-> RawNum(719), alert_type |-> RawText("PRIV_ESC"),
     user |-> RawText("alice"), destination_host |-> RawText("srv-01")]

\* rows that differ from the baseline row in one field
RowSeeds ==
    {Baseline}
    \cup {[Baseline EXCEPT !.score = x] :
             x \in {RawNum(299), RawNum(449), RawEmpty, RawText("high")}}
    \cup {[Baseline EXCEPT !.alert_type = x] :
             x \in {RawText("UNKNOWN_CODE"), RawEmpty}}
    \cup {[Baseline EXCEPT !.user = RawEmpty]}
    \cup {[Baseline EXCEPT !.destination_host = x] :
             x \in {RawText("srv-02"), RawEmpty}}

SeqsUpTo(S, n) == UNION {[1..m -> S] : m \in 0..n}

\* every header over the column universe, with one baseline row
SchemaTables ==
    {Table(cols, <<Baseline>>) : cols \in (SUBSET ColumnUniverse) \ {{}}}

\* one well-formed header, with every sequence of up to MaxRows rows
DataCols == {"risk", "score", "alert_type", "user", "destination_host"}
DataTables == {Table(DataCols, seeds) : seeds \in SeqsUpTo(RowSeeds, MaxRows)}

FileSystems == SUBSET (Dirs \X Filenames)
TypicalFiles == {<<"base", PrimaryFile>>}

FnInputs ==
    {Float(v) : v \in (0 - MaxNegScore)..MaxScore}
    \cup {NumStr(v) : v \in (0 - MaxNegScore)..MaxScore}
    \cup {NaN, PyNone, Str("abc"), Str("")}

-----------------------------------------------------------------------------
(* Initial states *)

InitScript ==
    /\ pc = "load"
    /\ csv_path = NotFound
    /\ df = NoFrame
    /\ found_risk_col = ""
    /\ dialog = NoDialog
    /\ error = ""
    /\ exit_status = -1
    /\ window = FALSE
    /\ severity_var = ""
    /\ df_view = <<>>
    /\ tree = <<>>
    /\ selection = <<>>
    /\ invest_text = <<>>
    /\ chart1 = {}
    /\ chart2 = {}

\* The process starts with some files on disk.  The search for the file and the
\* reading of its content do not depend on each other: every file layout is
\* tried with one well-formed file, and every header and every sequence of
\* data rows with the file in its usual place.
Init ==
    /\ \/ /\ meipass \in BOOLEAN
          /\ files \in FileSystems
          /\ csv_data = Table(DataCols, <<Baseline>>)
       \/ /\ meipass = FALSE
          /\ files = TypicalFiles
          /\ csv_data \in SchemaTables \cup DataTables
    /\ InitScript
    /\ fn_arg = PyNone
    /\ fn_level = ""
    /\ fn_expl = <<>>

-----------------------------------------------------------------------------
(* LOAD DATA *)

\* an unhandled exception: traceback, exit status 1
Crash(exc) ==
    /\ pc' = "crashed"
    /\ error' = exc
    /\ exit_status' = 1

\* messagebox.showerror(...) followed by sys.exit(1)
ShowErrorAndExit(text, names) ==
    /\ dialog' = [title |-> "CSV Error", text |-> text, names |-> names]
    /\ exit_status' = 1
    /\ pc' = "exited"

LoadData ==
    /\ pc = "load"
    /\ LET primary == get_csv_path(PrimaryFile)
           path == IF primary # NotFound THEN primary
                   ELSE get_csv_path(SecondaryFile)
       IN IF path = NotFound
          THEN /\ Crash("FileNotFoundError")
               /\ UNCHANGED <<csv_path, df>>
          ELSE /\ csv_path' = path
               /\ df' = read_csv(csv_data)
               /\ pc' = "normalize"
               /\ UNCHANGED <<error, exit_status>>
    /\ UNCHANGED <<found_risk_col, dialog>>
    /\ UNCHANGED <<env_vars, ui_vars, fn_vars>>

Normalize ==
    /\ pc = "normalize"
    /\ LET col == FindRiskCol(df.cols)
       IN IF col = ""
          THEN /\ ShowErrorAndExit("No risk score column found. Expected one of:",
                                   RISK_ALIASES)
               /\ UNCHANGED <<df, found_risk_col>>
          ELSE /\ found_risk_col' = col
               /\ df' = Rename(df, col, "risk_score")
               /\ pc' = "validate"
               /\ UNCHANGED <<dialog, exit_status>>
    /\ UNCHANGED <<csv_path, error>>
    /\ UNCHANGED <<env_vars, ui_vars, fn_vars>>

Validate ==
    /\ pc = "validate"
    /\ LET missing == Missing(df.cols)
       IN IF missing # <<>>
          THEN ShowErrorAndExit("Missing required columns:", missing)
          ELSE /\ pc' = "classify"
               /\ UNCHANGED <<dialog, exit_status>>
    /\ UNCHANGED <<csv_path, df, found_risk_col, error>>
    /\ UNCHANGED <<env_vars, ui_vars, fn_vars>>

Classify ==
    /\ pc = "classify"
    /\ IF AstypeFloatFails(df)
       THEN /\ Crash("ValueError")
            /\ UNCHANGED df
       ELSE /\ LET n == Len(df.rows)
                   scored == WithColumn(df, "risk_score",
                       [i \in 1..n |-> AstypeFloat(df.rows[i]["risk_score"])])
                   levelled == WithColumn(scored, "risk_level",
                       [i \in 1..n |->
                           Str(compute_risk_level(scored.rows[i]["risk_score"]))])
               IN df' = WithColumn(levelled, "status", [i \in 1..n |-> Str("NEW")])
            /\ pc' = "window"
            /\ UNCHANGED <<error, exit_status>>
    /\ UNCHANGED <<csv_path, found_risk_col, dialog>>
    /\ UNCHANGED <<env_vars, ui_vars, fn_vars>>

-----------------------------------------------------------------------------
(* ALERT TABLE *)

SeverityLevels == {"ALL", "HIGH", "MEDIUM", "LOW"}

\* f"{x:.3f}": scores are thousandths already, so three decimals show them all
Fmt3(x) == IF x.k = "nan" THEN Str("nan") ELSE [k |-> "fixed3", v |-> x.v, s |-> ""]

\* int(s) of a str written by str(n)
PyInt(x) == x.v

\* df.sample(frac=1): the row orders a shuffle can produce
Shuffles(n) ==
    {p \in [1..n -> 1..n] : \A i, j \in 1..n : p[i] = p[j] => i = j}

\* the labels 0 .. n-1 that reset_index(drop=True) gives a frame of n rows
Labels(view) == [i \in 1..Len(view) |-> i - 1]

\* the row of view at position k (view.iloc[k])
Iloc(view, k) == view[k + 1]

\* faulty variant: the mask keeps the rows of the other levels
MatchesInverted(row, sev) == sev = "ALL" \/ row["risk_level"] # Str(sev)

\* the row mask of populate_table: sev == "ALL" or risk_level == sev
Matches(row, sev) == sev = "ALL" \/ row["risk_level"] = Str(sev)

\* data: the labels of the rows of view that pass the filter, in view order
FilterLabels(view, sev) ==
    LET Keep(l) == Matches(Iloc(view, l), sev) IN SelectSeq(Labels(view), Keep)

RowValues(row) ==
    <<row["alert_type"], row["user"], row["destination_host"],
      row["risk_level"], Fmt3(row["risk_score"]), row["status"]>>

\* faulty variant: the iid is the position among the rows displayed
RowIdByPosition(pos, label) == NumStr(pos)

\* the iid given to tree.insert: the row's index label, which Tcl keeps as text
RowId(pos, label) == NumStr(label)

-----------------------------------------------------------------------------
(* CHARTS *)

HeadN == 5

\* Series.value_counts(): <<value, count>> for each non-null value
ValueCounts(view, labels, col) ==
    LET cells == {Iloc(view, labels[i])[col] : i \in 1..Len(labels)}
    IN {<<x, Cardinality({i \in 1..Len(labels) : Iloc(view, labels[i])[col] = x})>> :
           x \in {y \in cells : ~IsNull(y)}}

\* .head(n) of counts sorted by falling count
HeadOf(counts, n) ==
    IF Cardinality(counts) <= n THEN counts
    ELSE CHOOSE S \in SUBSET counts :
            /\ Cardinality(S) = n
            /\ \A a \in S, b \in counts \ S : a[2] >= b[2]

-----------------------------------------------------------------------------
(* POPULATE TABLE *)

\* populate_table() with update_charts(data), for the view and filter given
populate_table(view, sev) ==
    LET data == FilterLabels(view, sev)
    IN /\ tree' = [i \in 1..Len(data) |->
                      LET row == Iloc(view, data[i])
                      IN [iid |-> RowId(i - 1, data[i]),
                          values |-> RowValues(row),
                          tags |-> <<row["risk_level"]>>]]
       \* deleting the rows deletes the selection with them
       /\ selection' = <<>>
       /\ chart1' = ValueCounts(view, data, "risk_level")
       /\ chart2' = HeadOf(ValueCounts(view, data, "destination_host"), HeadN)

\* tk.Tk() to root.mainloop(): the widgets, the shuffled view, the first fill
StartUI ==
    /\ pc = "window"
    /\ window' = TRUE
    /\ severity_var' = "ALL"
    /\ \E p \in Shuffles(Len(df.rows)) :
          /\ df_view' = [i \in 1..Len(df.rows) |-> df.rows[p[i]]]
          /\ populate_table(df_view', "ALL")
    /\ pc' = "mainloop"
    /\ UNCHANGED <<invest_text, csv_path, df, found_risk_col, dialog, error,
                   exit_status>>
    /\ UNCHANGED <<env_vars, fn_vars>>

\* a radio button writes severity_var; the trace calls populate_table
SetSeverity(lvl) ==
    /\ pc = "mainloop"
    /\ severity_var' = lvl
    /\ populate_table(df_view, lvl)
    /\ UNCHANGED <<window, df_view, invest_text>>
    /\ UNCHANGED <<pc, csv_path, df, found_risk_col, dialog, error, exit_status>>
    /\ UNCHANGED <<env_vars, fn_vars>>

-----------------------------------------------------------------------------
(* INVESTIGATION PANEL *)

\* the text on_select writes, field by field
Message(row) ==
    <<row["alert_type"], row["user"], row["destination_host"],
      row["risk_level"], Fmt3(row["risk_score"]), row["status"],
      MitreGet(row["alert_type"])[1], MitreGet(row["alert_type"])[2],
      ml_explanation(row["risk_score"])>>

\* faulty variant: selecting a row marks its record as under investigation
OnSelectMarksStatus(S) ==
    /\ pc = "mainloop"
    /\ S \subseteq 1..Len(tree)
    /\ LET Picked(i) == i \in S
           sel == [i \in 1..Cardinality(S) |->
                     tree[SelectSeq([j \in 1..Len(tree) |-> j], Picked)[i]].iid]
       IN /\ selection' = sel
          /\ IF sel = <<>>
             THEN UNCHANGED <<invest_text, df_view>>
             ELSE /\ invest_text' = Message(Iloc(df_view, PyInt(sel[1])))
                  /\ df_view' = [df_view EXCEPT
                        ![PyInt(sel[1]) + 1]["status"] = Str("INVESTIGATING")]
    /\ UNCHANGED <<window, severity_var, tree, chart1, chart2>>
    /\ UNCHANGED <<pc, csv_path, df, found_risk_col, dialog, error, exit_status>>
    /\ UNCHANGED <<env_vars, fn_vars>>

\* The user changes the selection to the rows at display positions S (a click,
\* ctrl-click or shift-click); <<TreeviewSelect>> then runs on_select.
OnSelect(S) ==
    /\ pc = "mainloop"
    /\ S \subseteq 1..Len(tree)
    /\ LET Picked(i) == i \in S
           sel == [i \in 1..Cardinality(S) |->
                     tree[SelectSeq([j \in 1..Len(tree) |-> j], Picked)[i]].iid]
       IN /\ selection' = sel
          /\ IF sel = <<>>
             THEN UNCHANGED invest_text
             ELSE invest_text' = Message(Iloc(df_view, PyInt(sel[1])))
    /\ UNCHANGED <<window, severity_var, df_view, tree, chart1, chart2>>
    /\ UNCHANGED <<pc, csv_path, df, found_risk_col, dialog, error, exit_status>>
    /\ UNCHANGED <<env_vars, fn_vars>>

-----------------------------------------------------------------------------
(* The program *)

Next ==
    \/ LoadData
    \/ Normalize
    \/ Validate
    \/ Classify
    \/ StartUI
    \/ \E lvl \in SeverityLevels : SetSeverity(lvl)
    \/ \E S \in SUBSET (1..Len(tree)) : OnSelect(S)

Spec == Init /\ [][Next]_vars

-----------------------------------------------------------------------------
(* Direct calls of the pure functions *)

InitFn ==
    /\ meipass = FALSE
    /\ files = {}
    /\ csv_data = Table({"risk_score"}, <<>>)
    /\ InitScript
    /\ fn_arg \in FnInputs
    /\ fn_level = ""
    /\ fn_expl = <<>>

CallComputeRiskLevel ==
    /\ fn_level = ""
    /\ fn_level' = compute_risk_level(fn_arg)
    /\ UNCHANGED <<fn_arg, fn_expl>>
    /\ UNCHANGED <<env_vars, ui_vars>>
    /\ UNCHANGED <<pc, csv_path, df, found_risk_col, dialog, error, exit_status>>

CallMlExplanation ==
    /\ fn_expl = <<>>
    /\ fn_expl' = IF CanCompare(fn_arg) THEN ml_explanation(fn_arg)
                  ELSE <<"TypeError">>
    /\ UNCHANGED <<fn_arg, fn_level>>
    /\ UNCHANGED <<env_vars, ui_vars>>
    /\ UNCHANGED <<pc, csv_path, df, found_risk_col, dialog, error, exit_status>>

NextFn == CallComputeRiskLevel \/ CallMlExplanation

SpecFn == InitFn /\ [][NextFn]_vars

-----------------------------------------------------------------------------
(* Properties of the pure functions, checked under SpecFn *)

\* the argument has a numeric value: a float or a str holding a number
HasNumber(x) == x.k \in {"float", "numstr"}

\* C1: compute_risk_level(s) is HIGH iff s >= 0.70, MEDIUM iff 0.45 <= s < 0.70,
\* LOW iff s < 0.45 or s is non-numeric or missing; every call returns one of
\* the three tiers.
C1_RiskBands ==
    fn_level # "" =>
        /\ fn_level \in {"LOW", "MEDIUM", "HIGH"}
        /\ fn_level = "HIGH" <=> (HasNumber(fn_arg) /\ fn_arg.v >= 700)
        /\ fn_level = "MEDIUM" <=>
              (HasNumber(fn_arg) /\ fn_arg.v >= 450 /\ fn_arg.v < 700)
        /\ fn_level = "LOW" <=> (~HasNumber(fn_arg) \/ fn_arg.v < 450)

\* C1 witness: the classifier has been called on exactly 0.70 and said HIGH
C1_Witness == fn_arg = Float(700) /\ fn_level = "HIGH"

\* C4: for every numeric score the explanation list follows the classifier's
\* band: the three-item list iff HIGH, the "Suspicious behavior detected" list
\* iff MEDIUM, the "Low-confidence anomaly" list iff LOW.
C4_ExplanationFollowsLevel ==
    (fn_arg.k = "float" /\ fn_level # "" /\ fn_expl # <<>>) =>
        /\ (Len(fn_expl) = 3) <=> (fn_level = "HIGH")
        /\ (fn_expl[1] = "Suspicious behavior detected") <=> (fn_level = "MEDIUM")
        /\ (fn_expl[1] = "Low-confidence anomaly") <=> (fn_level = "LOW")

-----------------------------------------------------------------------------
(* Properties of the load, checked under Spec *)

\* the frame pd.read_csv returns for the file on disk
Loaded == read_csv(csv_data)

\* the load went past the file search
FileFound == pc # "load" /\ error # "FileNotFoundError"

\* C2: a row whose score cannot be parsed does not abort the load; it gets
\* risk_level LOW; the only aborts are a missing file and the two schema errors.
C2_UnparseableScoreIsLow ==
    /\ pc = "crashed" => error = "FileNotFoundError"
    /\ pc \in {"window", "mainloop"} =>
          \A i \in 1..Len(df.rows) :
              Loaded.rows[i][found_risk_col].k = "str" =>
                  df.rows[i]["risk_level"] = Str("LOW")

\* C3 as claimed: after normalization every record has a non-null alert_type,
\* user and destination_host, or the load failed fast.
C3_NoNullRequiredCell ==
    /\ pc \in {"classify", "window", "mainloop"} =>
          \A i \in 1..Len(df.rows) :
              \A c \in {"alert_type", "user", "destination_host"} :
                  c \in DOMAIN df.rows[i] /\ ~IsNull(df.rows[i][c])
    /\ pc \in {"exited", "crashed"} => ~window

\* C3 as amended: after normalization every record has the fields alert_type,
\* user and destination_host (the columns exist), or the load failed fast with
\* no dashboard; an empty cell of those columns stays null and is loaded.
C3_RequiredColumnsPresent ==
    /\ pc \in {"classify", "window", "mainloop"} =>
          /\ {"alert_type", "user", "destination_host"} \subseteq df.cols
          /\ \A i \in 1..Len(df.rows) :
                \A c \in {"alert_type", "user", "destination_host"} :
                    /\ c \in DOMAIN df.rows[i]
                    /\ IsNull(df.rows[i][c]) <=> csv_data.rows[i][c].k = "empty"
    /\ pc \in {"exited", "crashed"} => (~window /\ tree = <<>> /\ exit_status = 1)

\* C3 witness: the dashboard shows a record whose user cell is null
C3_Witness ==
    /\ pc = "mainloop"
    /\ \E i \in 1..Len(tree) : IsNull(tree[i].values[2])

\* C5: the first alias present, in the order risk_score, risk, score,
\* anomaly_score, severity_score, is renamed to risk_score and every other
\* column keeps its name and data; with none present the load ends with the
\* dialog listing the five aliases and exit status 1, nothing renamed.
C5_FirstAliasWins ==
    LET aliases == <<"risk_score", "risk", "score", "anomaly_score", "severity_score">>
        present == {i \in 1..5 : aliases[i] \in Loaded.cols}
        first == aliases[CHOOSE i \in present : \A j \in present : i <= j]
    IN /\ (FileFound /\ pc # "normalize") =>
            IF present = {}
            THEN /\ pc = "exited"
                 /\ dialog.text = "No risk score column found. Expected one of:"
                 /\ dialog.names = aliases
                 /\ exit_status = 1
                 /\ df = Loaded
                 /\ ~window
            ELSE /\ found_risk_col = first
                 /\ dialog.names # aliases
       /\ (FileFound /\ present # {} /\ pc \in {"validate", "exited"}) =>
            /\ df.cols = (Loaded.cols \ {first}) \cup {"risk_score"}
            /\ Len(df.rows) = Len(Loaded.rows)
            /\ \A i \in 1..Len(df.rows) :
                  /\ df.rows[i]["risk_score"] = Loaded.rows[i][first]
                  /\ \A c \in df.cols \ {"risk_score"} :
                        df.rows[i][c] = Loaded.rows[i][c]

\* C5 witness: a file with both "risk" and "score" has been bound to "risk"
C5_Witness ==
    /\ pc = "validate"
    /\ found_risk_col = "risk"
    /\ "score" \in df.cols
    /\ "risk" \notin df.cols

\* the elements of a sequence
Range(seq) == {seq[i] : i \in 1..Len(seq)}

\* C6: once the risk column is resolved, a missing alert_type, user or
\* destination_host ends the load with a dialog listing exactly the missing
\* names (never risk_score), exit status 1 and no classification or window;
\* with none missing no dialog is shown and the load goes on.
C6_MissingColumnsListed ==
    LET needed == {"alert_type", "user", "destination_host"}
    IN /\ (pc = "exited" /\ found_risk_col # "") =>
            /\ dialog.title = "CSV Error"
            /\ dialog.text = "Missing required columns:"
            /\ Range(dialog.names) = needed \ df.cols
            /\ Cardinality(Range(dialog.names)) = Len(dialog.names)
            /\ dialog.names # <<>>
            /\ exit_status = 1
            /\ ~window
            /\ "risk_level" \notin df.cols
       /\ (pc \in {"classify", "window", "mainloop"} \/ error = "ValueError") =>
            /\ dialog = NoDialog
            /\ needed \subseteq Loaded.cols
       /\ (FileFound /\ pc \notin {"normalize", "validate"}
              /\ found_risk_col # "" /\ ~(needed \subseteq Loaded.cols)) =>
            pc = "exited"

\* C6 witness: the load ended listing two missing columns
C6_Witness ==
    /\ pc = "exited"
    /\ dialog.names = <<"alert_type", "destination_host">>
    /\ "user" \in df.cols

\* C9: the file is taken from the first of bundle directory (when defined),
\* executable directory, working directory that holds it; the primary file
\* wins wherever it is, the secondary is read only when the primary is
\* nowhere, and with neither the process dies of FileNotFoundError before
\* any schema check.
C9_FileDiscovery ==
    LET order == IF meipass THEN <<"mei", "base", "cwd">> ELSE <<"base", "cwd">>
        hits(f) == {i \in 1..Len(order) : <<order[i], f>> \in files}
        first(f) == order[CHOOSE i \in hits(f) : \A j \in hits(f) : i <= j]
    IN pc # "load" =>
         IF hits("siem_alerts.csv") # {}
         THEN csv_path = <<first("siem_alerts.csv"), "siem_alerts.csv">>
              /\ error # "FileNotFoundError"
         ELSE IF hits("siem_features.csv") # {}
         THEN csv_path = <<first("siem_features.csv"), "siem_features.csv">>
              /\ error # "FileNotFoundError"
         ELSE /\ pc = "crashed"
              /\ error = "FileNotFoundError"
              /\ csv_path = <<>>
              /\ df = NoFrame
              /\ dialog = NoDialog
              /\ found_risk_col = ""

\* C9 witness: no bundle directory is defined, the primary file lies only in
\* a left-over bundle directory, and the secondary file, present in both other
\* directories, was read from the executable directory
C9_Witness ==
    /\ ~meipass
    /\ files = {<<"mei", "siem_alerts.csv">>, <<"base", "siem_features.csv">>,
                <<"cwd", "siem_features.csv">>}
    /\ csv_path = <<"base", "siem_features.csv">>

-----------------------------------------------------------------------------
(* Properties of the dashboard, checked under Spec *)

\* the label of the record shown in display row i
ShownLabel(i) == PyInt(tree[i].iid)

\* C7: the table shows exactly the records of the view whose risk_level is the
\* selected severity (all of them under ALL), each once, in view order, with
\* nothing left from an earlier filter.
C7_TableShowsFilter ==
    pc = "mainloop" =>
        LET n == Len(df_view)
            wanted == {l \in 0..(n - 1) :
                          \/ severity_var = "ALL"
                          \/ df_view[l + 1]["risk_level"].s = severity_var}
        IN /\ severity_var \in {"ALL", "HIGH", "MEDIUM", "LOW"}
           /\ {ShownLabel(i) : i \in 1..Len(tree)} = wanted
           /\ \A i, j \in 1..Len(tree) : i < j => ShownLabel(i) < ShownLabel(j)
           /\ \A i \in 1..Len(tree) :
                 LET rec == df_view[ShownLabel(i) + 1]
                 IN /\ tree[i].values[1] = rec["alert_type"]
                    /\ tree[i].values[2] = rec["user"]
                    /\ tree[i].values[3] = rec["destination_host"]
                    /\ tree[i].values[4] = rec["risk_level"]
                    /\ tree[i].values[6] = rec["status"]

\* C7 witness: after filtering, HIGH shows one of two records, the second
C7_Witness ==
    /\ pc = "mainloop"
    /\ severity_var = "HIGH"
    /\ Len(df_view) = 2
    /\ Len(tree) = 1
    /\ tree[1].iid = NumStr(1)
    /\ invest_text # <<>>

\* C8: in the event loop no step changes the stored records (df, df_view) or
\* any status, which stays "NEW"; only the table rows, the selection, the
\* filter, the charts and the investigation text change.
C8_StoredRecordsUnchanged ==
    [][pc = "mainloop" =>
          /\ df' = df
          /\ df_view' = df_view
          /\ \A i \in 1..Len(df_view') : df_view'[i]["status"] = Str("NEW")
          /\ \A i \in 1..Len(df'.rows) : df'.rows[i]["status"] = Str("NEW")
          /\ UNCHANGED <<pc, csv_path, found_risk_col, dialog, error,
                         exit_status, window>>]_vars

\* C8 witness: the filter has been changed and a row selected
C8_Witness ==
    /\ pc = "mainloop"
    /\ severity_var = "LOW"
    /\ selection # <<>>
    /\ invest_text # <<>>
    /\ Len(df_view) = 2

\* the investigation panel describes the record displayed in the first selected
\* row: the record at that display position among those passing the filter
PanelShowsSelectedRow ==
    LET pos == CHOOSE i \in 1..Len(tree) : tree[i].iid = selection[1]
        Passes(r) == severity_var = "ALL" \/ r["risk_level"].s = severity_var
        rec == SelectSeq(df_view, Passes)[pos]
        code == rec["alert_type"]
        known == {"PRIV_ESC", "BRUTE_FORCE", "LATERAL_MOVE", "DATA_EXFIL",
                  "MALWARE_EXEC", "PORT_SCAN", "AUTH_FAILURE"}
    IN /\ \E i \in 1..Len(tree) : tree[i].iid = selection[1]
       /\ df_view[PyInt(selection[1]) + 1] = rec
       /\ invest_text[1] = rec["alert_type"]
       /\ invest_text[2] = rec["user"]
       /\ invest_text[3] = rec["destination_host"]
       /\ invest_text[4] = rec["risk_level"]
       /\ invest_text[6] = rec["status"]
       /\ (code.k = "str" /\ code.s \in known) =>
             <<invest_text[7], invest_text[8]>> = MITRE_MAP[code.s]
       /\ code = Str("PRIV_ESC") =>
             <<invest_text[7], invest_text[8]>> = <<"Privilege Escalation", "T1068">>
       /\ ~(code.k = "str" /\ code.s \in known) =>
             <<invest_text[7], invest_text[8]>> = <<"Unknown", "N/A">>

\* C10: whenever a step leaves rows selected, the panel describes the record
\* displayed in the first selected row (row id and positional lookup agree,
\* tactic and technique come from MITRE_MAP or are Unknown / N/A); a step that
\* leaves nothing selected leaves the panel as it was.
C10_PanelMatchesSelection ==
    [][/\ selection' # <<>> => PanelShowsSelectedRow'
       /\ selection' = <<>> => invest_text' = invest_text]_vars

\* C10 witness: under the HIGH filter the only row shown is the view's second
\* record, it is selected and the panel shows its tactic
C10_Witness ==
    /\ pc = "mainloop"
    /\ severity_var = "HIGH"
    /\ Len(df_view) = 2
    /\ selection = <<NumStr(1)>>
    /\ invest_text[7] = "Privilege Escalation"
    /\ df_view[1]["risk_level"] # Str("HIGH")

====
